---- MODULE Spec2Model ----
(***************************************************************************)
(* A model of sage/combinat/q_analogues.py: the q-integer, q-factorial,    *)
(* q-binomial and q-Catalan functions as calls stepped through their       *)
(* code, and the memoized recursion q_jordan with its call stack and its   *)
(* cache.  qt_catalan_number (a tally over the external Dyck words) is not  *)
(* modelled.                                                               *)
(*                                                                         *)
(* A value of the arithmetic is either a rational number num/den or, for   *)
(* an indeterminate q, a rational function in factored form                *)
(*      num/den * q^qpow * PROD Phi_d(q)^(up[d] - dn[d])                   *)
(* (Phi_d the d-th cyclotomic polynomial).  ZZ[q] is a unique              *)
(* factorization domain and 1 - q^i = -PROD_{d | i} Phi_d(q), so every     *)
(* product and quotient the code forms of an indeterminate has exactly one *)
(* such form, and equality of values is equality of forms.                 *)
(***************************************************************************)
EXTENDS Integers, Sequences, FiniteSets, Bags, TLC

VARIABLES pc, fn, args, loc, out, cache, stack, jcall, jout

vars == <<pc, fn, args, loc, out, cache, stack, jcall, jout>>
pureVars == <<pc, fn, args, loc, out>>
jordanVars == <<cache, stack, jcall, jout>>

(* ------------------------------ bounds -------------------------------- *)

\* largest n given with a numeric q of absolute value 2 or more
MaxN == 5
\* largest n given with a numeric q in {-1, 0, 1}
MaxUnitN == 8
\* numeric q range over -MaxQ..MaxQ
MaxQ == 2
\* with an indeterminate q, n also ranges over NaiveMaxN-LargeSpan..NaiveMaxN+LargeSpan
LargeSpan == 2
\* q_binomial: "if n <= 70 or k <= n/4"
NaiveMaxN == 70

(* --------------------------- integer helpers -------------------------- *)

Abs(a) == IF a < 0 THEN -a ELSE a

Min(a, b) == IF a <= b THEN a ELSE b

RECURSIVE GCD(_, _)
GCD(a, b) == IF b = 0 THEN a ELSE GCD(b, a % b)

\* Python's a ** e on integers, e >= 0 (0 ** 0 = 1)
RECURSIVE Pow(_, _)
Pow(a, e) == IF e = 0 THEN 1 ELSE a * Pow(a, e - 1)

\* Python's a // b on integers: the floor of the quotient, for either sign
FloorDiv(a, b) == a \div b

\* Python's range(a, b) as a sequence
Range(a, b) == [i \in 1..(IF b > a THEN b - a ELSE 0) |-> a + i - 1]

Divisors(i) == {d \in 1..i : i % d = 0}

(* ------------------------------- values ------------------------------- *)

Mk(n, d, qp, up, dn) ==
    [kind |-> IF qp = 0 /\ up = EmptyBag /\ dn = EmptyBag THEN "num" ELSE "fun",
     num |-> n, den |-> d, qpow |-> qp, up |-> up, dn |-> dn]

Num(a) == Mk(a, 1, 0, EmptyBag, EmptyBag)

\* the rational a/b, b # 0, in lowest terms with a positive denominator
Rat(a, b) ==
    LET g == GCD(Abs(a), Abs(b))
        s == IF b < 0 THEN -1 ELSE 1
    IN  Mk(s * (a \div g), s * (b \div g), 0, EmptyBag, EmptyBag)

\* what is not a value of the arithmetic
Special(k) == [kind |-> k, num |-> 0, den |-> 1, qpow |-> 0,
               up |-> EmptyBag, dn |-> EmptyBag]

\* Python's None
NoneVal == Special("none")
\* a local that has not been assigned
Unset == Special("unset")
\* a polynomial floor division that leaves a remainder: the quotient is not tracked
Inexact == Special("inexact")

IsValue(v) == v.kind \in {"num", "fun"}

IsInt(v) == v.kind = "num" /\ v.den = 1

VIsZero(v) == v.num = 0

VMul(a, b) ==
    LET n == a.num * b.num
        d == a.den * b.den
        g == GCD(Abs(n), d)
        up == a.up (+) b.up
        dn == a.dn (+) b.dn
    IN  IF n = 0 THEN Num(0)
        ELSE Mk(n \div g, d \div g, a.qpow + b.qpow, up (-) dn, dn (-) up)

\* 1/b, b # 0
VInv(b) ==
    Mk((IF b.num < 0 THEN -1 ELSE 1) * b.den, Abs(b.num), -b.qpow, b.dn, b.up)

VNeg(a) == [a EXCEPT !.num = -a.num]

\* a / b (true division) for b # 0
VTrueDiv(a, b) == VMul(a, VInv(b))

\* a // b for b # 0: the floor of the quotient of integers, the quotient of
\* polynomials
VFloorDiv(a, b) ==
    IF IsInt(a) /\ IsInt(b) THEN Num(FloorDiv(a.num, b.num))
    ELSE LET r == VTrueDiv(a, b)
         IN  IF r.den = 1 /\ r.qpow >= 0 /\ r.dn = EmptyBag THEN r ELSE Inexact

\* sage.misc.misc.prod of a list of values (the empty product is 1), taken as
\* prod takes it, as a balanced product of the two halves of the list
RECURSIVE VProd(_)
VProd(s) ==
    IF s = <<>> THEN Num(1)
    ELSE IF Len(s) = 1 THEN s[1]
    ELSE LET h == Len(s) \div 2
         IN  VMul(VProd(SubSeq(s, 1, h)), VProd(SubSeq(s, h + 1, Len(s))))

(* A q (or p) as the functions receive it: cls says how the code classifies *)
(* it ("none": the argument was omitted; "poly": an instance of Polynomial; *)
(* "symbolic": in SR and no Polynomial; "other": neither), indet whether it *)
(* is an indeterminate or the number val, floordiv whether its type has //. *)
QRec(cls, indet, val, fd) == [cls |-> cls, indet |-> indet, val |-> val, floordiv |-> fd]

QNone == QRec("none", FALSE, 0, TRUE)

\* the generator of ZZ['q']
QGen == QRec("poly", TRUE, 0, TRUE)

\* 1 - q**i for i >= 1
OneMinusPow(q, i) ==
    IF q.indet THEN Mk(-1, 1, 0, SetToBag(Divisors(i)), EmptyBag)
    ELSE Num(1 - Pow(q.val, i))

(* ------------------------ cyclotomic polynomials ---------------------- *)
(* sage.rings.polynomial.cyclotomic is not part of the sources at hand: the *)
(* d-th cyclotomic polynomial is taken by its definition,                  *)
(*      x^d - 1 = PROD_{e | d} Phi_e(x),                                   *)
(* as a sequence of integer coefficients, constant term first.             *)

\* the quotient of a by the monic polynomial b
RECURSIVE PolyDiv(_, _)
PolyDiv(a, b) ==
    IF Len(a) < Len(b) THEN <<>>
    ELSE LET c == a[Len(a)]
             sh == Len(a) - Len(b)
             a2 == [i \in 1..(Len(a) - 1) |->
                       a[i] - (IF i > sh THEN c * b[i - sh] ELSE 0)]
         IN  Append(PolyDiv(a2, b), c)

\* Horner's rule
RECURSIVE PolyEval(_, _)
PolyEval(a, x) == IF a = <<>> THEN 0 ELSE a[1] + x * PolyEval(Tail(a), x)

XPowMinus1(d) == [i \in 1..(d + 1) |-> IF i = 1 THEN -1 ELSE IF i = d + 1 THEN 1 ELSE 0]

RECURSIVE CycloPoly(_)
RECURSIVE DivideOut(_, _)
DivideOut(a, S) ==
    IF S = {} THEN a
    ELSE LET e == CHOOSE e \in S : TRUE
         IN  DivideOut(PolyDiv(a, CycloPoly(e)), S \ {e})

CycloPoly(d) == DivideOut(XPowMinus1(d), Divisors(d) \ {d})

MaxCyclo == MaxN + MaxUnitN

CycloTable == [d \in 1..MaxCyclo |-> CycloPoly(d)]

\* cyclotomic_value(d, q): Phi_d evaluated at q
cyclotomic_value(d, q) ==
    IF q.indet THEN Mk(1, 1, 0, SetToBag({d}), EmptyBag)
    ELSE Num(PolyEval(CycloTable[d], q.val))

\* R.cyclotomic_polynomial(d): Phi_d in the generator of the ring R
cyclotomic_polynomial(d) == Mk(1, 1, 0, SetToBag({d}), EmptyBag)

(* ------------------------------- q_int -------------------------------- *)

\* an integer argument n or k as the caller gives it: the rational num/den
Ints(lo, hi) == {[num |-> i, den |-> 1] : i \in lo..hi}
Half == [num |-> 1, den |-> 2]

\* x in ZZ
InZZ(x) == x.den = 1

ValueErrorIntegers == Special("ValueError: must be integers")
ValueErrorNonneg == Special("ValueError: n must be nonnegative")
ValueErrorArgument == Special("ValueError: Argument must be a nonnegative integer.")
ValueErrorQOne == Special("ValueError: q must not be equal to 1")
ZeroDivisionError == Special("ZeroDivisionError")

IsError(v) == v.kind \in {ValueErrorIntegers.kind, ValueErrorNonneg.kind,
                          ValueErrorArgument.kind, ValueErrorQOne.kind,
                          ZeroDivisionError.kind}

\* "if p == None: p = ZZ['q'].gens()[0]"
Resolve(p) == IF p.cls = "none" THEN QGen ELSE p

RECURSIVE GeomSum(_, _)
\* sum(a**i for i in range(n)) on integers
GeomSum(a, n) == IF n <= 0 THEN 0 ELSE Pow(a, n - 1) + GeomSum(a, n - 1)

\* PowerSum with range(1, n) for range(n)
PowerSum_FromOne(p, n) ==
    IF n = 0 THEN Num(0)
    ELSE IF p.indet THEN Mk(1, 1, 0, SetToBag(Divisors(n) \ {1}), EmptyBag)
    ELSE Num(GeomSum(p.val, n) - 1)

\* sum(p**i for i in range(n)), n >= 0; for an indeterminate,
\* 1 + q + ... + q^(n-1) = PROD_{d | n, d > 1} Phi_d(q)
PowerSum(p, n) ==
    IF n = 0 THEN Num(0)
    ELSE IF p.indet THEN Mk(1, 1, 0, SetToBag(Divisors(n) \ {1}), EmptyBag)
    ELSE Num(GeomSum(p.val, n))

\* p**n for n < 0
NegPow(p, n) ==
    IF p.indet THEN Mk(1, 1, n, EmptyBag, EmptyBag)
    ELSE IF p.val = 0 THEN ZeroDivisionError
    ELSE Rat(1, Pow(p.val, -n))

\* q_int(n, p) for an integer n
q_int_ZZ(n, p0) ==
    LET p == Resolve(p0)
    IN  IF n >= 0 THEN PowerSum(p, n)
        ELSE IF IsError(NegPow(p, n)) THEN NegPow(p, n)
        ELSE VMul(VNeg(NegPow(p, n)), PowerSum(p, -n))

q_int(n, p) == IF ~InZZ(n) THEN ValueErrorIntegers ELSE q_int_ZZ(n.num, p)

\* q_factorial(n, p)
q_factorial(n, p) ==
    IF InZZ(n) /\ n.num >= 0
    THEN VProd([j \in 1..n.num |-> q_int_ZZ(j, p)])
    ELSE ValueErrorArgument

\* q_catalan_number(n, p)
q_catalan_number(n, p) ==
    IF InZZ(n) /\ n.num >= 0
    THEN LET r1 == Range(n.num + 2, 2 * n.num + 1)
             r2 == Range(2, n.num + 1)
             numer == VProd([j \in 1..Len(r1) |-> q_int_ZZ(r1[j], p)])
             denom == VProd([j \in 1..Len(r2) |-> q_int_ZZ(r2[j], p)])
         IN  IF VIsZero(denom) THEN ZeroDivisionError ELSE VTrueDiv(numer, denom)
    ELSE ValueErrorArgument

(* ----------------------------- the inputs ----------------------------- *)

Classes == {"poly", "symbolic", "other"}

\* a number of each class; a Polynomial and a symbolic expression are never
\* floor-divided without //, a value of another type may lack it
NumericQs(m) ==
    {QRec(c, FALSE, v, fd) : c \in Classes, v \in (-m)..m, fd \in BOOLEAN} \
        {x \in [cls : Classes, indet : {FALSE}, val : (-m)..m, floordiv : {FALSE}] :
            x.cls # "other"}

\* the omitted argument, and an indeterminate of each class
IndetQs ==
    {QNone, QGen, QRec("symbolic", TRUE, 0, FALSE),
     QRec("other", TRUE, 0, TRUE), QRec("other", TRUE, 0, FALSE)}

NoArg == [num |-> 0, den |-> 1]

BinomialInputs ==
    [n : Ints(-2, MaxN) \cup {Half}, k : Ints(-2, MaxN + 1) \cup {Half},
     q : NumericQs(MaxQ) \cup IndetQs]
    \cup [n : Ints(MaxN + 1, MaxUnitN), k : Ints(-1, MaxUnitN + 1), q : NumericQs(1)]
    \cup [n : Ints(NaiveMaxN - LargeSpan, NaiveMaxN + LargeSpan),
          k : Ints(-1, NaiveMaxN + LargeSpan + 1), q : IndetQs]

\* q_int and q_factorial: every n with every p
IntInputs ==
    [n : Ints(-MaxN, MaxN) \cup {Half}, k : {NoArg}, q : NumericQs(MaxQ) \cup IndetQs]

\* q_catalan_number multiplies q_int(j, p) up to j = 2n: a numeric p of absolute
\* value 2 or more comes with 2n <= MaxN + 2
CatalanInputs ==
    [n : Ints(-2, (MaxN + 2) \div 2) \cup {Half}, k : {NoArg},
     q : NumericQs(MaxQ) \cup IndetQs]
    \cup [n : Ints(0, MaxUnitN), k : {NoArg}, q : NumericQs(1) \cup IndetQs]

(* --------------------- the calls of the pure functions ----------------- *)

Loc0 == [n |-> 0, k |-> 0, q |-> QNone, is_polynomial |-> FALSE, algo |-> "unset",
         denomin |-> Unset, numerat |-> Unset, via |-> "unset"]

Init ==
    /\ pc = "idle"
    /\ fn = "none"
    /\ args = [n |-> NoArg, k |-> NoArg, q |-> QNone]
    /\ loc = Loc0
    /\ out = Unset
    /\ cache = <<>>
    /\ stack = <<>>
    /\ jcall = [t |-> <<>>, q |-> 0]
    /\ jout = Unset

\* a caller calls f with the arguments a (the functions keep no state from one
\* call to the next, so a behaviour is one call)
Call(f, a, first) ==
    /\ pc = "idle"
    /\ pc' = first
    /\ fn' = f
    /\ args' = a
    /\ loc' = Loc0
    /\ out' = Unset
    /\ UNCHANGED jordanVars

Return(v, via) ==
    /\ pc' = "done"
    /\ out' = v
    /\ loc' = [loc EXCEPT !.via = via]
    /\ UNCHANGED <<fn, args>>
    /\ UNCHANGED jordanVars

QIntCall == \E a \in IntInputs : Call("q_int", a, "body")

QInt ==
    /\ pc = "body" /\ fn = "q_int"
    /\ Return(q_int(args.n, args.q), "q_int")

QFactorialCall == \E a \in IntInputs : Call("q_factorial", a, "body")

QFactorial ==
    /\ pc = "body" /\ fn = "q_factorial"
    /\ Return(q_factorial(args.n, args.q), "q_factorial")

QCatalanCall == \E a \in CatalanInputs : Call("q_catalan_number", a, "body")

QCatalanNumber ==
    /\ pc = "body" /\ fn = "q_catalan_number"
    /\ Return(q_catalan_number(args.n, args.q), "q_catalan_number")

QBinomialCall == \E a \in BinomialInputs : Call("q_binomial", a, "sanity")

\* QBinomialSanity with the test of k before the test of n
QBinomialSanity_ZeroFirst ==
    /\ pc = "sanity"
    /\ IF ~(InZZ(args.n) /\ InZZ(args.k)) THEN Return(ValueErrorIntegers, "raise")
       ELSE IF ~(0 <= args.k.num /\ args.k.num <= args.n.num) THEN Return(Num(0), "zero")
       ELSE IF args.n.num < 0 THEN Return(ValueErrorNonneg, "raise")
       ELSE /\ pc' = "select"
            /\ loc' = [loc EXCEPT !.n = args.n.num,
                                  !.k = Min(args.n.num - args.k.num, args.k.num)]
            /\ UNCHANGED <<fn, args, out>>
            /\ UNCHANGED jordanVars

\* the sanity checks and "k = min(n-k,k)"
QBinomialSanity ==
    /\ pc = "sanity"
    /\ IF ~(InZZ(args.n) /\ InZZ(args.k)) THEN Return(ValueErrorIntegers, "raise")
       ELSE IF args.n.num < 0 THEN Return(ValueErrorNonneg, "raise")
       ELSE IF ~(0 <= args.k.num /\ args.k.num <= args.n.num) THEN Return(Num(0), "zero")
       ELSE /\ pc' = "select"
            /\ loc' = [loc EXCEPT !.n = args.n.num,
                                  !.k = Min(args.n.num - args.k.num, args.k.num)]
            /\ UNCHANGED <<fn, args, out>>
            /\ UNCHANGED jordanVars

\* ChooseAlgo with "and" for "or"
ChooseAlgo_And(n, k, q, is_polynomial) ==
    IF is_polynomial
    THEN IF n <= NaiveMaxN /\ 4 * k <= n THEN "naive" ELSE "cyclo_polynomial"
    ELSE IF q.cls = "symbolic" THEN "cyclo_generic"
    ELSE "naive"

\* the heuristic choice of the algorithm; for the integer k, k <= n/4 with the
\* rational n/4 is 4k <= n
ChooseAlgo(n, k, q, is_polynomial) ==
    IF is_polynomial
    THEN IF n <= NaiveMaxN \/ 4 * k <= n THEN "naive" ELSE "cyclo_polynomial"
    ELSE IF q.cls = "symbolic" THEN "cyclo_generic"
    ELSE "naive"

\* the polynomiality test and the choice of the algorithm
QBinomialSelect ==
    /\ pc = "select"
    /\ LET q == Resolve(args.q)
           is_polynomial == args.q.cls \in {"none", "poly"}
       IN  loc' = [loc EXCEPT !.q = q, !.is_polynomial = is_polynomial,
                              !.algo = ChooseAlgo(loc.n, loc.k, q, is_polynomial)]
    /\ pc' = "algos"
    /\ UNCHANGED <<fn, args, out>>
    /\ UNCHANGED jordanVars

\* prod([1 - q**i for i in range(1, k+1)])
Denominator(q, k) ==
    LET r == Range(1, k + 1) IN VProd([j \in 1..Len(r) |-> OneMinusPow(q, r[j])])

\* Numerator with range(n-k, n) for range(n-k+1, n+1)
Numerator_Shifted(q, n, k) ==
    LET r == Range(n - k, n) IN VProd([j \in 1..Len(r) |-> OneMinusPow(q, r[j])])

\* prod([1 - q**i for i in range(n-k+1, n+1)])
Numerator(q, n, k) ==
    LET r == Range(n - k + 1, n + 1) IN VProd([j \in 1..Len(r) |-> OneMinusPow(q, r[j])])

\* "try: return numerat//denomin except TypeError: return numerat/denomin"
Quotient(q, numerat, denomin) ==
    IF q.floordiv THEN VFloorDiv(numerat, denomin) ELSE VTrueDiv(numerat, denomin)

\* CycloIndices with range(2, n) for range(2, n+1)
CycloIndices_ShortRange(n, k) ==
    SelectSeq(Range(2, n),
              LAMBDA d : (n \div d) # (k \div d) + ((n - k) \div d))

\* the d in range(2, n+1) with floor(n/d) != floor(k/d) + floor((n-k)/d), in order
CycloIndices(n, k) ==
    SelectSeq(Range(2, n + 1),
              LAMBDA d : (n \div d) # (k \div d) + ((n - k) \div d))

QBinomialNaive ==
    /\ pc = "algos" /\ loc.algo = "naive"
    /\ LET denomin == Denominator(loc.q, loc.k)
           numerat == Numerator(loc.q, loc.n, loc.k)
       IN  IF VIsZero(denomin)
           THEN /\ loc' = [loc EXCEPT !.algo = "cyclo_generic", !.denomin = denomin]
                /\ UNCHANGED <<pc, fn, args, out>>
           ELSE /\ pc' = "done"
                /\ out' = Quotient(loc.q, numerat, denomin)
                /\ loc' = [loc EXCEPT !.denomin = denomin, !.numerat = numerat,
                                      !.via = "naive"]
                /\ UNCHANGED <<fn, args>>
    /\ UNCHANGED jordanVars

QBinomialCycloGeneric ==
    /\ pc = "algos" /\ loc.algo = "cyclo_generic"
    /\ LET ds == CycloIndices(loc.n, loc.k)
       IN  Return(VProd([j \in 1..Len(ds) |-> cyclotomic_value(ds[j], loc.q)]),
                  "cyclo_generic")

\* the last "if": a call that gets past it returns None
QBinomialCycloPolynomial ==
    /\ pc = "algos" /\ loc.algo \notin {"naive", "cyclo_generic"}
    /\ LET ds == CycloIndices(loc.n, loc.k)
       IN  IF loc.algo = "cyclo_polynomial"
           THEN Return(VProd([j \in 1..Len(ds) |-> cyclotomic_polynomial(ds[j])]),
                       "cyclo_polynomial")
           ELSE Return(NoneVal, "end")

Next ==
    \/ QIntCall
    \/ QInt
    \/ QFactorialCall
    \/ QFactorial
    \/ QCatalanCall
    \/ QCatalanNumber
    \/ QBinomialCall
    \/ QBinomialSanity
    \/ QBinomialSelect
    \/ QBinomialNaive
    \/ QBinomialCycloGeneric
    \/ QBinomialCycloPolynomial

Spec == Init /\ [][Next]_vars

(* ------------------------------ q_jordan ------------------------------ *)

\* the first call of a process gives q_jordan a partition of size at most
\* MaxSize + 1
MaxSize == 4
\* a process that calls q_jordan again and again gives it partitions of size at
\* most MaxCachedSize
MaxCachedSize == 3

\* sum of the parts
RECURSIVE Size(_)
Size(t) == IF t = <<>> THEN 0 ELSE t[1] + Size(Tail(t))

\* a list of weakly decreasing nonnegative integers
IsPartitionList(tp) ==
    /\ \A i \in 1..Len(tp) : tp[i] >= 0
    /\ \A i \in 1..(Len(tp) - 1) : tp[i] >= tp[i + 1]

\* a partition: weakly decreasing positive parts
IsPartition(t) == IsPartitionList(t) /\ \A i \in 1..Len(t) : t[i] > 0

\* Partition(tp) of a weakly decreasing list: the trailing zeros are dropped
RECURSIVE Partition(_)
Partition(tp) ==
    IF tp # <<>> /\ tp[Len(tp)] = 0 THEN Partition(SubSeq(tp, 1, Len(tp) - 1)) ELSE tp

\* Decrement without the "tp[i] -= 1"
Decrement_None(t, i) == t

\* "tp = t.to_list(); tp[i] -= 1"
Decrement(t, i) == [t EXCEPT ![i] = t[i] - 1]

\* Coeff without the division by q-1
Coeff_NoDivision(q, ti, tj) == Pow(q, ti) - Pow(q, tj)

\* (q**ti - q**tj) // (q-1)
Coeff(q, ti, tj) == FloorDiv(Pow(q, ti) - Pow(q, tj), q - 1)

\* ScanTakes with >= for >
ScanTakes_Geq(f) == f.t[f.i] >= f.tj

\* "if ti > tj" for the frame f, which scans t at index i (from 1)
ScanTakes(f) == f.t[f.i] > f.tj

\* the partitions of n with parts at most m
RECURSIVE PartitionsOf(_, _)
PartitionsOf(n, m) ==
    IF n = 0 THEN {<<>>}
    ELSE UNION {{<<f>> \o r : r \in PartitionsOf(n - f, f)} : f \in 1..Min(n, m)}

PartitionsUpTo(s) == UNION {PartitionsOf(n, n) : n \in 0..s}

\* what a process that calls q_jordan again and again gives it: a partition
\* and q = 1, which is refused, or one of two other q
JordanTs == PartitionsUpTo(MaxCachedSize)
JordanQs == {0, 1, 2}

\* what the first call of a process gives it
FirstTs == PartitionsUpTo(MaxSize + 1)
FirstQs == (-MaxQ)..MaxQ

\* the frame of a call q_jordan(t, q), about to look its arguments up
Frame(t, q) == [t |-> t, q |-> q, pc |-> "lookup", i |-> 0, tj |-> 0, res |-> 0]

Top == stack[Len(stack)]

Pop == SubSeq(stack, 1, Len(stack) - 1)

\* cached_function: "self.cache[k] = w"
Store(c, key, v) ==
    [x \in DOMAIN c \cup {key} |-> IF x = key THEN v ELSE c[x]]

\* Deliver with "res = ..." for "res += ..."
Deliver_Assign(v) ==
    IF Len(stack) = 1
    THEN /\ stack' = <<>>
         /\ jout' = Num(v)
    ELSE LET f == stack[Len(stack) - 1]
             ti == f.t[f.i]
         IN  /\ stack' = [Pop EXCEPT ![Len(stack) - 1] =
                            [f EXCEPT !.res = v * Coeff(f.q, ti, f.tj),
                                      !.tj = ti, !.i = f.i - 1, !.pc = "scan"]]
             /\ UNCHANGED jout

\* the call of the top frame returns v to its caller, the frame below it, which
\* goes on with "res += v * ((q**ti - q**tj) // (q-1)); tj = ti" and the next i
Deliver(v) ==
    IF Len(stack) = 1
    THEN /\ stack' = <<>>
         /\ jout' = Num(v)
    ELSE LET f == stack[Len(stack) - 1]
             ti == f.t[f.i]
         IN  /\ stack' = [Pop EXCEPT ![Len(stack) - 1] =
                            [f EXCEPT !.res = f.res + v * Coeff(f.q, ti, f.tj),
                                      !.tj = ti, !.i = f.i - 1, !.pc = "scan"]]
             /\ UNCHANGED jout

\* an exception leaves every frame of the stack: none catches it, none is cached
Raise(e) ==
    /\ stack' = <<>>
    /\ jout' = e
    /\ UNCHANGED cache

ValueErrorPartition == Special("ValueError: not a partition")

\* a caller calls q_jordan(t, q)
JordanCall ==
    /\ stack = <<>>
    /\ \E t \in JordanTs, q \in JordanQs :
          /\ stack' = <<Frame(t, q)>>
          /\ jcall' = [t |-> t, q |-> q]
    /\ jout' = Unset
    /\ UNCHANGED cache
    /\ UNCHANGED pureVars

\* the first call q_jordan(t, q) of a process: the cache is empty
JordanFirstCall ==
    /\ stack = <<>> /\ cache = <<>> /\ jout = Unset
    /\ \E t \in FirstTs, q \in FirstQs :
          /\ stack' = <<Frame(t, q)>>
          /\ jcall' = [t |-> t, q |-> q]
    /\ UNCHANGED <<cache, jout>>
    /\ UNCHANGED pureVars

\* cached_function finds the arguments in the cache and returns the entry
CacheHit ==
    /\ stack # <<>> /\ Top.pc = "lookup"
    /\ <<Top.t, Top.q>> \in DOMAIN cache
    /\ Deliver(cache[<<Top.t, Top.q>>])
    /\ UNCHANGED <<cache, jcall>>
    /\ UNCHANGED pureVars

\* cached_function does not find them and calls the function
CacheMiss ==
    /\ stack # <<>> /\ Top.pc = "lookup"
    /\ <<Top.t, Top.q>> \notin DOMAIN cache
    /\ stack' = [stack EXCEPT ![Len(stack)].pc = "body"]
    /\ UNCHANGED <<cache, jcall, jout>>
    /\ UNCHANGED pureVars

\* JordanEnter with the test of len(t) before the test of q
JordanEnter_BaseFirst ==
    /\ stack # <<>> /\ Top.pc = "body"
    /\ IF Len(Top.t) = 0
       THEN /\ cache' = Store(cache, <<Top.t, Top.q>>, 1)
            /\ Deliver(1)
       ELSE IF Top.q = 1 THEN Raise(ValueErrorQOne)
       ELSE /\ stack' = [stack EXCEPT ![Len(stack)] =
                            [Top EXCEPT !.pc = "scan", !.i = Len(Top.t),
                                        !.tj = 0, !.res = 0]]
            /\ UNCHANGED <<cache, jout>>
    /\ UNCHANGED jcall
    /\ UNCHANGED pureVars

\* "if q == 1: raise"; "if len(t) == 0: return 1"; "tj = 0; res = 0" and the
\* first index of the loop, the last of t
JordanEnter ==
    /\ stack # <<>> /\ Top.pc = "body"
    /\ IF Top.q = 1 THEN Raise(ValueErrorQOne)
       ELSE IF Len(Top.t) = 0
       THEN /\ cache' = Store(cache, <<Top.t, Top.q>>, 1)
            /\ Deliver(1)
       ELSE /\ stack' = [stack EXCEPT ![Len(stack)] =
                            [Top EXCEPT !.pc = "scan", !.i = Len(Top.t),
                                        !.tj = 0, !.res = 0]]
            /\ UNCHANGED <<cache, jout>>
    /\ UNCHANGED jcall
    /\ UNCHANGED pureVars

\* "if ti > tj": the recursive call on Partition(tp)
JordanRecurse ==
    /\ stack # <<>> /\ Top.pc = "scan" /\ Top.i >= 1
    /\ ScanTakes(Top)
    /\ LET tp == Decrement(Top.t, Top.i)
       IN  IF IsPartitionList(tp)
           THEN /\ stack' = Append([stack EXCEPT ![Len(stack)].pc = "wait"],
                                   Frame(Partition(tp), Top.q))
                /\ UNCHANGED <<cache, jout>>
           ELSE Raise(ValueErrorPartition)
    /\ UNCHANGED jcall
    /\ UNCHANGED pureVars

\* ti <= tj: the next index
JordanSkip ==
    /\ stack # <<>> /\ Top.pc = "scan" /\ Top.i >= 1
    /\ ~ScanTakes(Top)
    /\ stack' = [stack EXCEPT ![Len(stack)].i = Top.i - 1]
    /\ UNCHANGED <<cache, jcall, jout>>
    /\ UNCHANGED pureVars

\* "return res" after the loop; cached_function stores the result
JordanReturn ==
    /\ stack # <<>> /\ Top.pc = "scan" /\ Top.i = 0
    /\ cache' = Store(cache, <<Top.t, Top.q>>, Top.res)
    /\ Deliver(Top.res)
    /\ UNCHANGED jcall
    /\ UNCHANGED pureVars

JordanStep ==
    \/ CacheHit
    \/ CacheMiss
    \/ JordanEnter
    \/ JordanRecurse
    \/ JordanSkip
    \/ JordanReturn

NextJordan ==
    \/ JordanCall
    \/ JordanStep

SpecJordan == Init /\ [][NextJordan]_vars

NextFirst ==
    \/ JordanFirstCall
    \/ JordanStep

\* one call of q_jordan in a process that has made none
SpecFirst == Init /\ [][NextFirst]_vars

\* a call that has begun goes on: the program is one thread, which runs it
FairSpecFirst == SpecFirst /\ WF_vars(JordanStep)

\* q_jordan(t, q) as the function of its arguments that the code without the
\* cache computes, for q # 1
RECURSIVE QJordan(_, _)
RECURSIVE QJordanScan(_, _, _, _)
QJordanScan(t, q, i, tj) ==
    IF i = 0 THEN 0
    ELSE IF t[i] > tj
    THEN QJordan(Partition(Decrement(t, i)), q) * Coeff(q, t[i], tj)
            + QJordanScan(t, q, i - 1, t[i])
    ELSE QJordanScan(t, q, i - 1, tj)

QJordan(t, q) == IF Len(t) = 0 THEN 1 ELSE QJordanScan(t, q, Len(t), 0)

(* ------------------------- the claims: q_binomial ---------------------- *)

RECURSIVE Binomial(_, _)
\* the binomial coefficient, by Pascal's rule
Binomial(n, k) ==
    IF k < 0 \/ k > n THEN 0
    ELSE IF k = 0 \/ k = n THEN 1
    ELSE Binomial(n - 1, k - 1) + Binomial(n - 1, k)

IsPrime(p) == p >= 2 /\ \A e \in 2..(p - 1) : p % e # 0

\* p if d is a power of the prime p, 1 otherwise
PhiAtOne(d) ==
    LET ps == {p \in 2..d : IsPrime(p) /\ d % p = 0}
    IN  IF Cardinality(ps) = 1 THEN CHOOSE p \in ps : TRUE ELSE 1

RECURSIVE IntProd(_)
\* the product of a sequence of integers
IntProd(s) == IF s = <<>> THEN 1 ELSE s[1] * IntProd(Tail(s))

\* the elements of the set S of integers in increasing order
RECURSIVE Sorted(_)
Sorted(S) ==
    IF S = {} THEN <<>>
    ELSE LET m == CHOOSE m \in S : \A x \in S : m <= x
         IN  <<m>> \o Sorted(S \ {m})

\* the d in 2..n with floor(n/d) # floor(k/d) + floor((n-k)/d)
Uncancelled(n, k) ==
    Sorted({d \in 2..n : (n \div d) # (k \div d) + ((n - k) \div d)})

\* a q_binomial call on integers n >= 0, 0 <= k <= n has returned
BinomialDone ==
    /\ pc = "done" /\ fn = "q_binomial"
    /\ InZZ(args.n) /\ InZZ(args.k)
    /\ 0 <= args.k.num /\ args.k.num <= args.n.num

\* the q of the call is the number v
NumericQ(v) == args.q.cls # "none" /\ ~args.q.indet /\ args.q.val = v

KPrime == Min(args.k.num, args.n.num - args.k.num)

(* C1: for integers n >= 0 and 0 <= k <= n, q_binomial(n, k, 1) returns the  *)
(* binomial coefficient C(n,k): with k' = min(k, n-k), a naive start with    *)
(* k' = 0 returns 1 from the naive path; with k' >= 1 the naive denominator  *)
(* is zero and the result is the product of Phi_d(1) over the d in 2..n with *)
(* floor(n/d) # floor(k'/d) + floor((n-k')/d), Phi_d(1) being p for d a      *)
(* power of the prime p and 1 otherwise.                                    *)
C1_BinomialAtOne ==
    (BinomialDone /\ NumericQ(1)) =>
        LET ds == Uncancelled(args.n.num, KPrime)
        IN  /\ out = Num(Binomial(args.n.num, args.k.num))
            /\ out = Num(IntProd([j \in 1..Len(ds) |-> PhiAtOne(ds[j])]))
            /\ loc.via \in {"naive", "cyclo_generic"}
            /\ loc.via = "naive" => KPrime = 0 /\ out = Num(1)
            /\ (KPrime = 0 /\ args.q.cls # "symbolic") => loc.via = "naive"
            /\ (KPrime >= 1 /\ args.q.cls # "symbolic") => loc.denomin = Num(0)
            /\ KPrime >= 1 => loc.via = "cyclo_generic"

\* q_binomial(6, 4, 1) = 15 = Phi_3(1) * Phi_5(1), past the zero denominator
C1_Witness ==
    /\ BinomialDone /\ NumericQ(1)
    /\ args.n.num = 6 /\ args.k.num = 4
    /\ args.q.cls = "other"
    /\ loc.denomin = Num(0)
    /\ loc.via = "cyclo_generic"
    /\ out = Num(15)

\* the integer the naive formula gives: N // D
NaiveInt(n, k, q) ==
    LET r1 == Range(n - k + 1, n + 1)
        r2 == Range(1, k + 1)
    IN  IntProd([j \in 1..Len(r1) |-> 1 - Pow(q, r1[j])])
            \div IntProd([j \in 1..Len(r2) |-> 1 - Pow(q, r2[j])])

NaiveRemainder(n, k, q) ==
    LET r1 == Range(n - k + 1, n + 1)
        r2 == Range(1, k + 1)
        N == IntProd([j \in 1..Len(r1) |-> 1 - Pow(q, r1[j])])
        D == IntProd([j \in 1..Len(r2) |-> 1 - Pow(q, r2[j])])
    IN  N - D * (N \div D)

NaiveDenominator(k, q) ==
    LET r2 == Range(1, k + 1) IN IntProd([j \in 1..Len(r2) |-> 1 - Pow(q, r2[j])])

\* the integer the cyclotomic product gives
CycloInt(n, k, q) ==
    LET ds == Uncancelled(n, k)
    IN  IntProd([j \in 1..Len(ds) |-> PolyEval(CycloPoly(ds[j]), q)])

(* C2: for integers n >= 0, 0 <= k <= n and an integer q whose naive         *)
(* denominator D = prod_{i=1..k'} (1 - q^i) is nonzero, the path that        *)
(* returns, naive or cyclotomic-generic, returns both the naive N // D and   *)
(* the product of Phi_d(q) over the d in 2..n with                          *)
(* floor(n/d) # floor(k'/d) + floor((n-k')/d), and D divides N exactly.      *)
C2_NaiveEqualsCyclo ==
    (/\ BinomialDone
     /\ args.q.cls # "none" /\ ~args.q.indet
     /\ NaiveDenominator(KPrime, args.q.val) # 0) =>
        /\ loc.via \in {"naive", "cyclo_generic"}
        /\ NaiveRemainder(args.n.num, KPrime, args.q.val) = 0
        /\ out = Num(NaiveInt(args.n.num, KPrime, args.q.val))
        /\ out = Num(CycloInt(args.n.num, KPrime, args.q.val))

\* the naive path returned q_binomial(4, 2, -2) = (-135) // (-9) = 15
C2_Witness ==
    /\ BinomialDone /\ NumericQ(-2)
    /\ args.n.num = 4 /\ args.k.num = 2
    /\ loc.via = "naive"
    /\ loc.numerat.num < 0 /\ loc.denomin.num # 0
    /\ out = Num(15)

(* C3: on integers n, k and whatever the q, q_binomial raises "n must be     *)
(* nonnegative" when n < 0, for every k; returns 0 when n >= 0 and k < 0 or  *)
(* k > n, with no algorithm chosen and no product evaluated; and goes on to  *)
(* the choice of the algorithm only when 0 <= k <= n.                       *)
C3_ValidationOrder ==
    (fn = "q_binomial" /\ InZZ(args.n) /\ InZZ(args.k)) =>
        /\ (pc = "done" /\ args.n.num < 0) =>
              out = ValueErrorNonneg /\ loc = [Loc0 EXCEPT !.via = "raise"]
        /\ (pc = "done" /\ args.n.num >= 0
                /\ (args.k.num < 0 \/ args.k.num > args.n.num)) =>
              out = Num(0) /\ loc = [Loc0 EXCEPT !.via = "zero"]
        /\ (pc \in {"select", "algos"} \/ loc.algo # "unset"
                \/ loc.denomin # Unset \/ loc.numerat # Unset) =>
              (0 <= args.k.num /\ args.k.num <= args.n.num)

\* n < 0 with k > n: the error, not the zero
C3_Witness ==
    /\ pc = "done" /\ fn = "q_binomial"
    /\ args.n = [num |-> -2, den |-> 1] /\ args.k = [num |-> -1, den |-> 1]
    /\ out = ValueErrorNonneg

(* C10: for integers n >= 0, 0 <= k <= n the algorithm is chosen from        *)
(* k' = min(k, n-k) and the class of q: a polynomial q (the default too)     *)
(* starts naive when n <= 70 or k' <= n/4 and cyclotomic-polynomial          *)
(* otherwise, a symbolic q that is no polynomial starts cyclotomic-generic,  *)
(* any other q starts naive; a naive start switches to cyclotomic-generic    *)
(* exactly when its denominator is zero; the cyclotomic-polynomial path      *)
(* returns iff q is a polynomial, n > 70 and k' > n/4; and every such call   *)
(* returns a value.                                                         *)
C10_AlgorithmChoice ==
    LET poly == args.q.cls \in {"none", "poly"}
        big == args.n.num > 70 /\ 4 * KPrime > args.n.num
        start == IF poly THEN (IF big THEN "cyclo_polynomial" ELSE "naive")
                 ELSE IF args.q.cls = "symbolic" THEN "cyclo_generic"
                 ELSE "naive"
    IN  /\ (fn = "q_binomial" /\ pc = "algos") =>
              /\ loc.k = KPrime
              /\ loc.denomin = Unset => loc.algo = start
              /\ loc.denomin # Unset =>
                    start = "naive" /\ loc.algo = "cyclo_generic" /\ loc.denomin = Num(0)
        /\ BinomialDone =>
              /\ IsValue(out)
              /\ loc.via \in {"naive", "cyclo_generic", "cyclo_polynomial"}
              /\ loc.via = "cyclo_polynomial" <=> (poly /\ big)
              /\ start = "naive" =>
                    (loc.via = "cyclo_generic" <=> loc.denomin = Num(0))
              /\ start = "naive" => loc.via \in {"naive", "cyclo_generic"}
              /\ start = "cyclo_generic" => loc.via = "cyclo_generic"

\* the default q, n = 71 > 70 and k' = 18 > 71/4: the cyclotomic-polynomial path
C10_Witness ==
    /\ BinomialDone
    /\ args.q.cls = "none" /\ args.n.num = 71 /\ args.k.num = 53
    /\ loc.k = 18 /\ loc.via = "cyclo_polynomial"
    /\ out.kind = "fun"

(* --------------------- the claims: q_catalan_number -------------------- *)

RECURSIVE Catalan(_)
RECURSIVE CatalanSum(_, _)
\* the Catalan numbers, by C_0 = 1 and C_(n+1) = sum_{i=0..n} C_i C_(n-i)
CatalanSum(n, i) ==
    IF i < 0 THEN 0 ELSE Catalan(i) * Catalan(n - i) + CatalanSum(n, i - 1)

Catalan(n) == IF n = 0 THEN 1 ELSE CatalanSum(n - 1, n - 1)

(* C7: for an integer n >= 0, q_catalan_number(n, 1) is the Catalan number   *)
(* C_n: it is prod_{j=n+2..2n} j divided by prod_{j=2..n} j, the division is *)
(* exact, and for n = 0 and n = 1 both products are empty and the result is  *)
(* 1.                                                                       *)
C7_CatalanAtOne ==
    (/\ pc = "done" /\ fn = "q_catalan_number"
     /\ InZZ(args.n) /\ args.n.num >= 0 /\ NumericQ(1)) =>
        LET n == args.n.num
            top == IntProd(Range(n + 2, 2 * n + 1))
            bot == IntProd(Range(2, n + 1))
        IN  /\ out = Num(Catalan(n))
            /\ top = Catalan(n) * bot
            /\ IsInt(out) /\ out.num * bot = top
            /\ n <= 1 => Range(n + 2, 2 * n + 1) = <<>> /\ Range(2, n + 1) = <<>>
                            /\ out = Num(1)

\* q_catalan_number(4, 1) = 14
C7_Witness ==
    /\ pc = "done" /\ fn = "q_catalan_number"
    /\ args.n = [num |-> 4, den |-> 1] /\ NumericQ(1)
    /\ out = Num(14)

(* --------------------------- the claims: q_jordan ---------------------- *)

(* C4: for an integer n >= 0 and an integer q # 1, q_jordan of the partition *)
(* [n] (the empty partition for n = 0) returns q_factorial(n, q), the        *)
(* product of the q_int(i, q) = q^0 + ... + q^(i-1) for i in 1..n; the value *)
(* of [n] is the value of [n-1] (of the empty partition for n = 1) times     *)
(* (q^n - q^0) // (q - 1).                                                  *)
C4_SinglePartIsFactorial ==
    /\ (stack = <<>> /\ jout # Unset /\ Len(jcall.t) <= 1 /\ jcall.q # 1) =>
          jout = q_factorial([num |-> Size(jcall.t), den |-> 1],
                             QRec("other", FALSE, jcall.q, TRUE))
    /\ \A key \in DOMAIN cache :
          Len(key[1]) = 1 =>
              LET n == key[1][1]
                  q == key[2]
                  prev == IF n = 1 THEN <<>> ELSE <<n - 1>>
              IN  /\ <<prev, q>> \in DOMAIN cache
                  /\ cache[key] = cache[<<prev, q>>] * ((Pow(q, n) - Pow(q, 0)) \div (q - 1))
                  /\ Num(cache[key]) = q_factorial([num |-> n, den |-> 1],
                                                   QRec("other", FALSE, q, TRUE))

\* q_jordan([5], -2) = 1 * (-1) * 3 * (-5) * 11 = 165
C4_Witness ==
    /\ stack = <<>>
    /\ jcall = [t |-> <<5>>, q |-> -2]
    /\ jout = Num(165)
    /\ <<<<1>>, -2>> \in DOMAIN cache

(* C5: for every partition t, the empty one too, q_jordan(t, 1) raises       *)
(* "q must not be equal to 1": the call makes no recursive call and reaches  *)
(* neither the base case nor the loop, returns no value, and leaves the      *)
(* cache as it was.                                                         *)
C5_QOneRaises ==
    /\ []((stack = <<>> /\ jout # Unset /\ jcall.q = 1) => jout = ValueErrorQOne)
    /\ [](\A j \in 1..Len(stack) :
             stack[j].q = 1 => Len(stack) = 1 /\ stack[j].pc \in {"lookup", "body"})
    /\ [](\A key \in DOMAIN cache : key[2] # 1)
    /\ [][(stack # <<>> /\ stack[1].q = 1) =>
             (cache' = cache /\ Len(stack') <= 1
                /\ (stack' = <<>> => jout' = ValueErrorQOne))]_vars

\* q_jordan of the empty partition and q = 1 has raised, the cache holding the
\* entries of earlier calls
C5_Witness ==
    /\ stack = <<>>
    /\ jcall = [t |-> <<>>, q |-> 1]
    /\ jout = ValueErrorQOne
    /\ <<<<>>, 2>> \in DOMAIN cache

(* C6: the cache is keyed by (t, q) and only grows: an entry is never        *)
(* removed nor given another value, an entry that is stored is the value     *)
(* the recursion without the cache computes for its (t, q), and a call whose *)
(* (t, q) is stored returns the entry without a recursive call and without a *)
(* change of the cache.                                                     *)
C6_CacheAppendOnly ==
    [][/\ \A key \in DOMAIN cache :
             key \in DOMAIN cache' /\ cache'[key] = cache[key]
       /\ \A key \in DOMAIN cache' \ DOMAIN cache :
             /\ key \in JordanTs \X JordanQs
             /\ stack # <<>> /\ key = <<Top.t, Top.q>>
             /\ cache'[key] = QJordan(key[1], key[2])
       /\ (stack # <<>> /\ Top.pc = "lookup" /\ <<Top.t, Top.q>> \in DOMAIN cache) =>
             /\ cache' = cache
             /\ Len(stack') = Len(stack) - 1
             /\ IF Len(stack) = 1
                THEN jout' = Num(cache[<<Top.t, Top.q>>])
                ELSE LET f == stack[Len(stack) - 1]
                     IN  stack'[Len(stack')].res =
                            f.res + cache[<<Top.t, Top.q>>]
                                      * ((Pow(f.q, f.t[f.i]) - Pow(f.q, f.tj)) \div (f.q - 1))
      ]_vars

\* a recursive call finds its (t, q) in a cache that holds entries of two q
C6_Witness ==
    /\ Len(stack) >= 2 /\ Top.pc = "lookup"
    /\ Top.t = <<2>> /\ Top.q = 2
    /\ <<Top.t, Top.q>> \in DOMAIN cache
    /\ <<<<2>>, 0>> \in DOMAIN cache
    /\ cache[<<<<2>>, 0>>] # cache[<<<<2>>, 2>>]

(* C8: a call q_jordan(t, q) with q # 1 returns: every recursive call is on  *)
(* a partition of a size smaller than its caller's, the depth of the         *)
(* recursive calls is at most the size of t, and the call ends with a value. *)
C8_Terminates ==
    /\ [](\A j \in 1..(Len(stack) - 1) : Size(stack[j + 1].t) < Size(stack[j].t))
    /\ [](stack # <<>> => Len(stack) - 1 <= Size(stack[1].t))
    /\ ((stack # <<>> /\ stack[1].q # 1) ~> (stack = <<>> /\ jout.kind = "num"))

\* the recursion is as deep as the partition is large, at the empty partition
C8_Witness ==
    /\ stack # <<>>
    /\ stack[1].t = <<2, 2, 1>>
    /\ Len(stack) = 6
    /\ Top.t = <<>>

\* t[i] is greater than every part after it
AboveLater(t, i) == \A j \in (i + 1)..Len(t) : t[i] > t[j]

(* C9: in the scan of a partition t from its last index to its first, a      *)
(* recursive call is made at index i exactly when t[i] is greater than every *)
(* part after it (the last occurrence of a part value), and the argument of  *)
(* the call, t with t[i] less one, is a partition of size |t| - 1: it is     *)
(* weakly decreasing, and a zero arises only at the last index, where it is  *)
(* dropped.                                                                 *)
C9_ScanCallsValidPartitions ==
    /\ [](jout # ValueErrorPartition)
    /\ [](\A j \in 1..Len(stack) :
             LET f == stack[j]
             IN  /\ IsPartition(f.t)
                 /\ f.pc = "wait" =>
                       /\ j < Len(stack)
                       /\ AboveLater(f.t, f.i)
                       /\ \A x \in (f.i + 1)..Len(f.t) : f.t[x] # f.t[f.i]
                       /\ LET tp == [f.t EXCEPT ![f.i] = f.t[f.i] - 1]
                              child == stack[j + 1].t
                          IN  /\ \A x \in 1..(Len(tp) - 1) : tp[x] >= tp[x + 1]
                              /\ \A x \in 1..Len(tp) : tp[x] = 0 => x = Len(tp) /\ x = f.i
                              /\ child = IF tp[Len(tp)] = 0
                                         THEN SubSeq(tp, 1, Len(tp) - 1) ELSE tp
                              /\ IsPartition(child)
                              /\ Size(child) = Size(f.t) - 1)
    /\ [][(stack # <<>> /\ Top.pc = "scan" /\ Top.i >= 1) =>
             /\ (Len(stack') = Len(stack) + 1) <=> AboveLater(Top.t, Top.i)
             /\ (Len(stack') = Len(stack) /\ stack'[Len(stack)].i = Top.i - 1)
                    <=> ~AboveLater(Top.t, Top.i)]_vars

\* the scan of [2, 2, 1] has passed the 1 and calls at the last 2, not the first
C9_Witness ==
    \E j \in 1..(Len(stack) - 1) :
        /\ stack[j].pc = "wait"
        /\ stack[j].t = <<2, 2, 1>> /\ stack[j].i = 2 /\ stack[j].tj = 1
        /\ stack[j + 1].t = <<2, 1, 1>>

====
